---- MODULE Spec2Model ----
(***************************************************************************)
(* Contact identity resolution of any-vcard: the field normalizers, the    *)
(* DedupIndex, the duplicate classifier and MergeContacts                  *)
(* (internal/vcard/dedup.go), with the Contact type of internal/vcard.     *)
(*                                                                         *)
(* A Go string is a sequence of one-character strings; "" is << >>.  A     *)
(* rune outside ASCII is written as one element with a longer name         *)
(* ("e-acute" is U+00E9).                                                  *)
(***************************************************************************)
EXTENDS Integers, Sequences, FiniteSets, TLC

\* ------------------------------------------------------------------ strings

Digits == {"0", "1", "2", "3", "4", "5", "6", "7", "8", "9"}

\* unicode.IsSpace on the runes of the model's alphabet
IsSpace(ch) == ch \in {" ", "\t", "\n"}

\* unicode.ToLower: the runes of the model's alphabet that have a lower case
LowerCase ==
  [ch \in {"A", "B", "C", "D", "E", "F", "G", "H", "I", "J", "K", "L", "M", "N",
           "O", "P", "Q", "R", "S", "T", "U", "V", "W", "X", "Y", "Z",
           "E-acute", "O-stroke"} |->
     CASE ch = "A" -> "a" [] ch = "B" -> "b" [] ch = "C" -> "c" [] ch = "D" -> "d"
       [] ch = "E" -> "e" [] ch = "F" -> "f" [] ch = "G" -> "g" [] ch = "H" -> "h"
       [] ch = "I" -> "i" [] ch = "J" -> "j" [] ch = "K" -> "k" [] ch = "L" -> "l"
       [] ch = "M" -> "m" [] ch = "N" -> "n" [] ch = "O" -> "o" [] ch = "P" -> "p"
       [] ch = "Q" -> "q" [] ch = "R" -> "r" [] ch = "S" -> "s" [] ch = "T" -> "t"
       [] ch = "U" -> "u" [] ch = "V" -> "v" [] ch = "W" -> "w" [] ch = "X" -> "x"
       [] ch = "Y" -> "y" [] ch = "Z" -> "z"
       [] ch = "E-acute" -> "e-acute" [] ch = "O-stroke" -> "o-stroke"]

ToLowerRune(ch) == IF ch \in DOMAIN LowerCase THEN LowerCase[ch] ELSE ch

\* strings.ToLower
ToLower(s) == [i \in 1..Len(s) |-> ToLowerRune(s[i])]

\* s[from:to] of Go, on 1-based positions from+1..to
Slice(s, from, to) == [i \in 1..(to - from) |-> s[from + i]]

\* strings.TrimSpace
TrimSpace(s) ==
  LET keep == {i \in 1..Len(s) : ~IsSpace(s[i])}
  IN  IF keep = {} THEN << >>
      ELSE LET lo == CHOOSE i \in keep : \A j \in keep : i <= j
               hi == CHOOSE i \in keep : \A j \in keep : j <= i
           IN  Slice(s, lo - 1, hi)

\* strings.HasPrefix / strings.HasSuffix
HasPrefix(s, p) == Len(s) >= Len(p) /\ \A i \in 1..Len(p) : s[i] = p[i]
HasSuffix(s, x) == Len(s) >= Len(x) /\ \A i \in 1..Len(x) : s[Len(s) - Len(x) + i] = x[i]

\* strings.TrimPrefix / strings.TrimSuffix
TrimPrefix(s, p) == IF HasPrefix(s, p) THEN Slice(s, Len(p), Len(s)) ELSE s
TrimSuffix(s, x) == IF HasSuffix(s, x) THEN Slice(s, 0, Len(s) - Len(x)) ELSE s

\* strings.Index(s, ch) for a one-rune needle: 0-based position or -1
IndexRune(s, ch) ==
  LET hits == {i \in 1..Len(s) : s[i] = ch}
  IN  IF hits = {} THEN -1 ELSE (CHOOSE i \in hits : \A j \in hits : i <= j) - 1

\* strings.ReplaceAll(s, ch, "")
RECURSIVE RemoveRune(_, _)
RemoveRune(s, ch) ==
  IF s = << >> THEN << >>
  ELSE IF Head(s) = ch THEN RemoveRune(Tail(s), ch)
       ELSE <<Head(s)>> \o RemoveRune(Tail(s), ch)

\* strings.Fields: the maximal runs of non-space runes
RECURSIVE FieldsFrom(_, _)
FieldsFrom(s, cur) ==
  IF s = << >> THEN (IF cur = << >> THEN << >> ELSE <<cur>>)
  ELSE IF IsSpace(Head(s))
       THEN (IF cur = << >> THEN << >> ELSE <<cur>>) \o FieldsFrom(Tail(s), << >>)
       ELSE FieldsFrom(Tail(s), Append(cur, Head(s)))

Fields(s) == FieldsFrom(s, << >>)

\* strings.Join(parts, sep)
RECURSIVE Join(_, _)
Join(parts, sep) ==
  IF parts = << >> THEN << >>
  ELSE IF Len(parts) = 1 THEN parts[1]
       ELSE parts[1] \o sep \o Join(Tail(parts), sep)

\* --------------------------------------------------------- field normalizers

suffixLen == 9

\* NormalizePhoneForDedup keeping a short number only above 6 digits
NormalizePhoneForDedup_aboveSix(phone) ==
  LET d == SelectSeq(phone, LAMBDA r : r \in Digits)
  IN  IF Len(d) >= suffixLen THEN Slice(d, Len(d) - suffixLen, Len(d))
      ELSE IF Len(d) > 6 THEN d
      ELSE << >>

\* NormalizePhoneForDedup: the digits, cut to the last 9; "" under 6 digits
NormalizePhoneForDedup(phone) ==
  LET d == SelectSeq(phone, LAMBDA r : r \in Digits)
  IN  IF Len(d) >= suffixLen THEN Slice(d, Len(d) - suffixLen, Len(d))
      ELSE IF Len(d) >= 6 THEN d
      ELSE << >>

\* NormalizeEmailForDedup without "Normalize gmail variants"
NormalizeEmailForDedup_noGooglemail(raw) ==
  LET email == ToLower(TrimSpace(raw))
      at    == IndexRune(email, "@")
  IN  IF at = -1 THEN email
      ELSE LET local0 == Slice(email, 0, at)
               domain == Slice(email, at + 1, Len(email))
               plus   == IndexRune(local0, "+")
               local1 == IF plus # -1 THEN Slice(local0, 0, plus) ELSE local0
               local  == IF domain = <<"g", "m", "a", "i", "l", ".", "c", "o", "m">> THEN RemoveRune(local1, ".") ELSE local1
           IN  local \o <<"@">> \o domain

\* NormalizeEmailForDedup
NormalizeEmailForDedup(raw) ==
  LET email == ToLower(TrimSpace(raw))
      at    == IndexRune(email, "@")
  IN  IF at = -1 THEN email
      ELSE LET local0 == Slice(email, 0, at)
               domain0 == Slice(email, at + 1, Len(email))
               plus   == IndexRune(local0, "+")
               local1 == IF plus # -1 THEN Slice(local0, 0, plus) ELSE local0
               domain == IF domain0 = <<"g", "o", "o", "g", "l", "e", "m", "a", "i", "l", ".", "c", "o", "m">> THEN <<"g", "m", "a", "i", "l", ".", "c", "o", "m">> ELSE domain0
               local  == IF domain = <<"g", "m", "a", "i", "l", ".", "c", "o", "m">> THEN RemoveRune(local1, ".") ELSE local1
           IN  local \o <<"@">> \o domain

\* removeAccents: NFD, drop the combining marks (category Mn), NFC
Unaccented ==
  [ch \in {"e-acute", "E-acute", "n-tilde", "u-umlaut"} |->
     CASE ch = "e-acute" -> "e" [] ch = "E-acute" -> "E"
       [] ch = "n-tilde" -> "n" [] ch = "u-umlaut" -> "u"]

removeAccentsRune(ch) == IF ch \in DOMAIN Unaccented THEN Unaccented[ch] ELSE ch

removeAccents(s) == [i \in 1..Len(s) |-> removeAccentsRune(s[i])]

prefixes == <<<<"d", "r", " ">>, <<"d", "r", ".", " ">>, <<"m", "r", " ">>, <<"m", "r", ".", " ">>, <<"m", "r", "s", " ">>, <<"m", "r", "s", ".", " ">>, <<"m", "s", " ">>, <<"m", "s", ".", " ">>,
              <<"p", "r", "o", "f", " ">>, <<"p", "r", "o", "f", ".", " ">>>>

suffixes == <<<<" ", "j", "r">>, <<" ", "j", "r", ".">>, <<" ", "s", "r">>, <<" ", "s", "r", ".">>, <<" ", "i", "i">>, <<" ", "i", "i", "i">>, <<" ", "i", "v">>, <<" ", "p", "h", "d">>, <<" ", "m", "d">>>>

\* the loop "for _, p := range list { name = trim(name, p) }"
RECURSIVE TrimPrefixes(_, _)
TrimPrefixes(name, list) ==
  IF list = << >> THEN name
  ELSE TrimPrefixes(TrimPrefix(name, Head(list)), Tail(list))

RECURSIVE TrimSuffixes(_, _)
TrimSuffixes(name, list) ==
  IF list = << >> THEN name
  ELSE TrimSuffixes(TrimSuffix(name, Head(list)), Tail(list))

\* NormalizeNameForDedup
NormalizeNameForDedup(raw) ==
  LET lower     == ToLower(raw)
      plain     == removeAccents(lower)
      collapsed == Join(Fields(plain), <<" ">>)
      noPrefix  == TrimPrefixes(collapsed, prefixes)
      noSuffix  == TrimSuffixes(noPrefix, suffixes)
  IN  TrimSpace(noSuffix)

\* ------------------------------------------------------------------ Contact

\* type Address
Address(street, city, region, postal, country, full) ==
  [Street |-> street, City |-> city, Region |-> region, PostalCode |-> postal,
   Country |-> country, Full |-> full]

\* the zero value of type Contact
EmptyContact ==
  [FormattedName |-> << >>, GivenName |-> << >>, FamilyName |-> << >>,
   MiddleName |-> << >>, Prefix |-> << >>, Suffix |-> << >>,
   Emails |-> << >>, Phones |-> << >>, Addresses |-> << >>,
   Organization |-> << >>, Title |-> << >>, URLs |-> << >>,
   Note |-> << >>, Birthday |-> << >>, Photo |-> << >>, ObjectID |-> << >>]

\* filterEmpty
filterEmpty(strs) == SelectSeq(strs, LAMBDA s : s # << >>)

\* Contact.DisplayName
DisplayName(c) ==
  LET parts == filterEmpty(<<c.Prefix, c.GivenName, c.MiddleName, c.FamilyName, c.Suffix>>)
  IN  IF c.FormattedName # << >> THEN c.FormattedName
      ELSE IF Len(parts) > 0 THEN Join(parts, <<" ">>)
      ELSE IF c.Organization # << >> THEN c.Organization
      ELSE <<"U", "n", "n", "a", "m", "e", "d", " ", "C", "o", "n", "t", "a", "c", "t">>

\* the keys of a contact, one per phone / email, in field order
PhoneKeys(c) == [i \in 1..Len(c.Phones) |-> NormalizePhoneForDedup(c.Phones[i])]
EmailKeys(c) == [i \in 1..Len(c.Emails) |-> NormalizeEmailForDedup(c.Emails[i])]
NameKey(c)   == NormalizeNameForDedup(DisplayName(c))

Range(s) == {s[i] : i \in 1..Len(s)}

\* --------------------------------------------------------------- classifier

\* hasAnyOverlap: a map of a's keys, probed with each key of b
hasAnyOverlap(a, b) ==
  LET aPhones == Range(PhoneKeys(a))
      aEmails == Range(EmailKeys(a))
  IN  \/ \E i \in 1..Len(b.Phones) : PhoneKeys(b)[i] \in aPhones
      \/ \E i \in 1..Len(b.Emails) : EmailKeys(b)[i] \in aEmails

\* isMinimalContact without its address test
isMinimalContact_noAddressTest(c) ==
  IF Len(c.Emails) > 0 THEN FALSE
  ELSE IF Len(c.Phones) > 3 THEN FALSE
  ELSE TRUE

\* isMinimalContact with the phone test off by one
isMinimalContact_fourPhones(c) ==
  IF Len(c.Emails) > 0 THEN FALSE
  ELSE IF Len(c.Phones) > 4 THEN FALSE
  ELSE IF Len(c.Addresses) > 0 THEN FALSE
  ELSE TRUE

\* isMinimalContact
isMinimalContact(c) ==
  IF Len(c.Emails) > 0 THEN FALSE
  ELSE IF Len(c.Phones) > 3 THEN FALSE
  ELSE IF Len(c.Addresses) > 0 THEN FALSE
  ELSE TRUE

\* -------------------------------------------------------------------- index

\* m[key] of a Go map of slices: nil when the key is absent
Bucket(m, key) == IF key \in DOMAIN m THEN m[key] ELSE << >>

\* the loop putting the contact at the front of its buckets
RECURSIVE AddKeys_atFront(_, _, _)
AddKeys_atFront(m, keys, p) ==
  IF keys = << >> THEN m
  ELSE LET key == Head(keys)
           m1  == IF key # << >>
                  THEN (IF key \in DOMAIN m THEN [m EXCEPT ![key] = <<p>> \o @]
                        ELSE m @@ (key :> <<p>>))
                  ELSE m
       IN  AddKeys_atFront(m1, Tail(keys), p)

\* "if key != "" { m[key] = append(m[key], c) }" for each key in turn
RECURSIVE AddKeys(_, _, _)
AddKeys(m, keys, p) ==
  IF keys = << >> THEN m
  ELSE LET key == Head(keys)
           m1  == IF key # << >>
                  THEN (IF key \in DOMAIN m THEN [m EXCEPT ![key] = Append(@, p)]
                        ELSE m @@ (key :> <<p>>))
                  ELSE m
       IN  AddKeys(m1, Tail(keys), p)

\* Add indexing the first phone only
AddByPhone_firstOnly(m, c, p) ==
  IF c.Phones = << >> THEN m ELSE AddKeys(m, <<PhoneKeys(c)[1]>>, p)

\* the three loops of DedupIndex.Add, on the contact c stored at pointer p
AddByPhone(m, c, p) == AddKeys(m, PhoneKeys(c), p)
AddByEmail(m, c, p) == AddKeys(m, EmailKeys(c), p)
AddByName(m, c, p)  == AddKeys(m, <<NameKey(c)>>, p)

\* addMatch without its seen map
addMatch_noSeen(found, candidate, p) ==
  IF candidate = p THEN found
  ELSE Append(found, candidate)

\* the closure addMatch of FindDuplicates; seen is the set of the matches
addMatch(found, candidate, p) ==
  IF candidate = p THEN found
  ELSE IF candidate \in Range(found) THEN found
  ELSE Append(found, candidate)

RECURSIVE addMatches(_, _, _)
addMatches(found, candidates, p) ==
  IF candidates = << >> THEN found
  ELSE addMatches(addMatch(found, Head(candidates), p), Tail(candidates), p)

\* "for _, k := range keys { for _, candidate := range m[k] { ... } }"
RECURSIVE BucketsOf(_, _)
BucketsOf(m, keys) ==
  IF keys = << >> THEN << >>
  ELSE Bucket(m, Head(keys)) \o BucketsOf(m, Tail(keys))

\* the name key of a contact DisplayName calls "Unnamed Contact"
UnnamedKey == <<"u", "n", "n", "a", "m", "e", "d", " ", "c", "o", "n", "t", "a", "c", "t">>

\* the name branch taken for every name key but the empty one
NameMatches_noUnnamedTest(heap, nameIdx, c) ==
  LET nameKey == NameKey(c)
  IN  IF nameKey # << >>
      THEN SelectSeq(Bucket(nameIdx, nameKey),
                     LAMBDA candidate :
                       \/ hasAnyOverlap(c, heap[candidate])
                       \/ isMinimalContact(c) \/ isMinimalContact(heap[candidate]))
      ELSE << >>

\* the name branch: the candidates of the name bucket that are accepted
NameMatches(heap, nameIdx, c) ==
  LET nameKey == NameKey(c)
  IN  IF nameKey # << >> /\ nameKey # UnnamedKey
      THEN SelectSeq(Bucket(nameIdx, nameKey),
                     LAMBDA candidate :
                       \/ hasAnyOverlap(c, heap[candidate])
                       \/ isMinimalContact(c) \/ isMinimalContact(heap[candidate]))
      ELSE << >>

\* FindDuplicates looking into the phone buckets only
FindDuplicatesOf_phoneOnly(heap, phoneIdx, emailIdx, nameIdx, c, p) ==
  addMatches(<< >>, BucketsOf(phoneIdx, PhoneKeys(c)), p)

\* DedupIndex.FindDuplicates for the contact c at pointer p (0: not in heap)
FindDuplicatesOf(heap, phoneIdx, emailIdx, nameIdx, c, p) ==
  LET m1 == addMatches(<< >>, BucketsOf(phoneIdx, PhoneKeys(c)), p)
      m2 == addMatches(m1, BucketsOf(emailIdx, EmailKeys(c)), p)
  IN  addMatches(m2, NameMatches(heap, nameIdx, c), p)

\* --------------------------------------------------------------- comparator

MatchNone   == 0
MatchWeak   == 1
MatchMedium == 2
MatchStrong == 3

\* "for _, xa := range as { keyA := ...; if keyA == "" { continue }
\*  for _, xb := range bs { if keyA == key(xb) { return MatchStrong } } }"
KeyMatch(keysA, keysB) ==
  \E i \in 1..Len(keysA) : keysA[i] # << >> /\ keysA[i] \in Range(keysB)

\* CompareContacts without "Don't match unnamed/empty contacts"
CompareContacts_noUnnamedTest(a, b) ==
  IF KeyMatch(PhoneKeys(a), PhoneKeys(b)) THEN MatchStrong
  ELSE IF KeyMatch(EmailKeys(a), EmailKeys(b)) THEN MatchStrong
  ELSE IF NameKey(a) # << >> /\ NameKey(a) = NameKey(b)
       THEN IF a.Organization # << >> /\ a.Organization = b.Organization
            THEN MatchMedium
            ELSE IF a.Birthday # << >> /\ a.Birthday = b.Birthday
                 THEN MatchMedium
                 ELSE MatchWeak
       ELSE MatchNone

\* CompareContacts with the organization and the birthday both required
CompareContacts_bothRequired(a, b) ==
  IF KeyMatch(PhoneKeys(a), PhoneKeys(b)) THEN MatchStrong
  ELSE IF KeyMatch(EmailKeys(a), EmailKeys(b)) THEN MatchStrong
  ELSE IF NameKey(a) = UnnamedKey \/ NameKey(b) = UnnamedKey THEN MatchNone
  ELSE IF NameKey(a) # << >> /\ NameKey(a) = NameKey(b)
       THEN IF /\ a.Organization # << >> /\ a.Organization = b.Organization
               /\ a.Birthday # << >> /\ a.Birthday = b.Birthday
            THEN MatchMedium
            ELSE MatchWeak
       ELSE MatchNone

\* CompareContacts with the organization and the birthday of a only looked at,
\* not compared with those of b
CompareContacts_fieldsOfAOnly(a, b) ==
  IF KeyMatch(PhoneKeys(a), PhoneKeys(b)) THEN MatchStrong
  ELSE IF KeyMatch(EmailKeys(a), EmailKeys(b)) THEN MatchStrong
  ELSE IF NameKey(a) = UnnamedKey \/ NameKey(b) = UnnamedKey THEN MatchNone
  ELSE IF NameKey(a) # << >> /\ NameKey(a) = NameKey(b)
       THEN IF a.Organization # << >>
            THEN MatchMedium
            ELSE IF a.Birthday # << >>
                 THEN MatchMedium
                 ELSE MatchWeak
       ELSE MatchNone

\* CompareContacts without "if keyA == "" { continue }"
CompareContacts_emptyKeyCounts(a, b) ==
  IF Range(PhoneKeys(a)) \cap Range(PhoneKeys(b)) # {} THEN MatchStrong
  ELSE IF Range(EmailKeys(a)) \cap Range(EmailKeys(b)) # {} THEN MatchStrong
  ELSE IF NameKey(a) = UnnamedKey \/ NameKey(b) = UnnamedKey THEN MatchNone
  ELSE IF NameKey(a) # << >> /\ NameKey(a) = NameKey(b)
       THEN IF a.Organization # << >> /\ a.Organization = b.Organization
            THEN MatchMedium
            ELSE IF a.Birthday # << >> /\ a.Birthday = b.Birthday
                 THEN MatchMedium
                 ELSE MatchWeak
       ELSE MatchNone

\* CompareContacts(a, b)
CompareContacts(a, b) ==
  IF KeyMatch(PhoneKeys(a), PhoneKeys(b)) THEN MatchStrong
  ELSE IF KeyMatch(EmailKeys(a), EmailKeys(b)) THEN MatchStrong
  ELSE IF NameKey(a) = UnnamedKey \/ NameKey(b) = UnnamedKey THEN MatchNone
  ELSE IF NameKey(a) # << >> /\ NameKey(a) = NameKey(b)
       THEN IF a.Organization # << >> /\ a.Organization = b.Organization
            THEN MatchMedium
            ELSE IF a.Birthday # << >> /\ a.Birthday = b.Birthday
                 THEN MatchMedium
                 ELSE MatchWeak
       ELSE MatchNone

\* -------------------------------------------------------------------- merge

\* normalizeAddress
normalizeAddress(a) ==
  Join(<<ToLower(TrimSpace(a.Street)), ToLower(TrimSpace(a.City)),
         ToLower(TrimSpace(a.Region)), ToLower(TrimSpace(a.PostalCode)),
         ToLower(TrimSpace(a.Country))>>, <<"|">>)

AddressKeys(c) == [i \in 1..Len(c.Addresses) |-> normalizeAddress(c.Addresses[i])]
URLKeys(c)     == [i \in 1..Len(c.URLs) |-> ToLower(c.URLs[i])]

NoteSeparator == <<"\n", "\n", "-", "-", "-", "\n", "\n">>

\* a scalar copied whenever src has it, also over a value of dst
MergeScalar_overwrite(st, src, f) ==
  IF src[f] # << >> /\ st.dst[f] # src[f]
  THEN [dst |-> [st.dst EXCEPT ![f] = src[f]], merged |-> TRUE]
  ELSE st

\* "if dst.F == "" && src.F != "" { dst.F = src.F; merged = true }"
MergeScalar(st, src, f) ==
  IF st.dst[f] = << >> /\ src[f] # << >>
  THEN [dst |-> [st.dst EXCEPT ![f] = src[f]], merged |-> TRUE]
  ELSE st

\* the loop without "existing[key] = struct{}{}"
RECURSIVE MergeItems_keyNotRecorded(_, _, _, _, _)
MergeItems_keyNotRecorded(items, existing, srcItems, srcKeys, merged) ==
  IF srcItems = << >> THEN [items |-> items, merged |-> merged]
  ELSE LET key == Head(srcKeys)
       IN  IF key \notin existing /\ key # << >>
           THEN MergeItems_keyNotRecorded(Append(items, Head(srcItems)), existing,
                                          Tail(srcItems), Tail(srcKeys), TRUE)
           ELSE MergeItems_keyNotRecorded(items, existing, Tail(srcItems),
                                          Tail(srcKeys), merged)

\* the loop putting a new item in front of dst's items
RECURSIVE MergeItems_prepend(_, _, _, _, _)
MergeItems_prepend(items, existing, srcItems, srcKeys, merged) ==
  IF srcItems = << >> THEN [items |-> items, merged |-> merged]
  ELSE LET key == Head(srcKeys)
       IN  IF key \notin existing /\ key # << >>
           THEN MergeItems_prepend(<<Head(srcItems)>> \o items, existing \cup {key},
                                   Tail(srcItems), Tail(srcKeys), TRUE)
           ELSE MergeItems_prepend(items, existing, Tail(srcItems), Tail(srcKeys),
                                   merged)

\* the loop appending every item of src that has a key, also one dst has
RECURSIVE MergeItems_noExistingTest(_, _, _, _, _)
MergeItems_noExistingTest(items, existing, srcItems, srcKeys, merged) ==
  IF srcItems = << >> THEN [items |-> items, merged |-> merged]
  ELSE IF Head(srcKeys) # << >>
       THEN MergeItems_noExistingTest(Append(items, Head(srcItems)), existing,
                                      Tail(srcItems), Tail(srcKeys), TRUE)
       ELSE MergeItems_noExistingTest(items, existing, Tail(srcItems),
                                      Tail(srcKeys), merged)

\* the loop over the items of src: append the item when its key is neither
\* in existing nor empty, and record the key
RECURSIVE MergeItems(_, _, _, _, _)
MergeItems(items, existing, srcItems, srcKeys, merged) ==
  IF srcItems = << >> THEN [items |-> items, merged |-> merged]
  ELSE LET key == Head(srcKeys)
       IN  IF key \notin existing /\ key # << >>
           THEN MergeItems(Append(items, Head(srcItems)), existing \cup {key},
                           Tail(srcItems), Tail(srcKeys), TRUE)
           ELSE MergeItems(items, existing, Tail(srcItems), Tail(srcKeys), merged)

\* one "Merge unique ..." block, on the field f with the keys dstKeys, srcKeys
MergeList(st, src, f, dstKeys, srcKeys) ==
  LET r == MergeItems(st.dst[f], Range(dstKeys), src[f], srcKeys, st.merged)
  IN  [dst |-> [st.dst EXCEPT ![f] = r.items], merged |-> r.merged]

\* the note block reporting a merge for every note of src
MergeNote_alwaysMerged(st, src) ==
  IF src.Note # << >>
  THEN [dst |-> [st.dst EXCEPT !.Note = IF st.dst.Note = src.Note THEN src.Note
                                        ELSE IF st.dst.Note = << >> THEN src.Note
                                        ELSE st.dst.Note \o <<"\n", "\n", "-", "-", "-", "\n", "\n">> \o src.Note],
        merged |-> TRUE]
  ELSE st

\* the note block replacing dst's note
MergeNote_replace(st, src) ==
  IF src.Note # << >> /\ st.dst.Note # src.Note
  THEN [dst |-> [st.dst EXCEPT !.Note = src.Note], merged |-> TRUE]
  ELSE st

\* "Merge notes (append if different)"
MergeNote(st, src) ==
  IF src.Note # << >> /\ st.dst.Note # src.Note
  THEN [dst |-> [st.dst EXCEPT !.Note = IF st.dst.Note = << >> THEN src.Note
                                        ELSE st.dst.Note \o NoteSeparator \o src.Note],
        merged |-> TRUE]
  ELSE st

\* the blocks of MergeContacts, in the order of the code: the field each works on
MergeOrder ==
  <<"FormattedName", "GivenName", "FamilyName", "MiddleName", "Prefix", "Suffix",
    "Emails", "Phones", "Addresses", "Organization", "Title", "URLs", "Note",
    "Birthday", "Photo">>

\* the keys a list block compares: the normalized items of the field f of c
ListKeys(c, f) ==
  CASE f = "Emails"    -> EmailKeys(c)
    [] f = "Phones"    -> PhoneKeys(c)
    [] f = "Addresses" -> AddressKeys(c)
    [] f = "URLs"      -> URLKeys(c)

\* the block of MergeContacts that works on the field f
MergeBlock(st, src, f) ==
  CASE f \in {"Emails", "Phones", "Addresses", "URLs"} ->
         MergeList(st, src, f, ListKeys(st.dst, f), ListKeys(src, f))
    [] f = "Note" -> MergeNote(st, src)
    [] OTHER -> MergeScalar(st, src, f)

\* the blocks for the fields `fields`, one after the other
RECURSIVE MergeBlocks(_, _, _)
MergeBlocks(st, src, fields) ==
  IF fields = << >> THEN st
  ELSE MergeBlocks(MergeBlock(st, src, Head(fields)), src, Tail(fields))

\* MergeContacts(dst, src): the new value of *dst and the returned flag
MergeContacts(dst, src) ==
  MergeBlocks([dst |-> dst, merged |-> FALSE], src, MergeOrder)

\* ------------------------------------------------------------------- inputs

MaxIndexed == 2
MaxMerges  == 2
MaxItems   == 2

\* raw phones: PA and PA2 differ in format only, PShort1/2 have under 6 digits
PA      == <<"+", "3", "4", " ", "6", "1", "2", "3", "4", "5", "6", "7", "8">>
PA2     == <<"6", "1", "2", "-", "3", "4", "5", "-", "6", "7", "8">>
PB      == <<"1", "2", "3", "4", "5", "6">>
PC      == <<"2", "3", "4", "5", "6", "7">>
PD      == <<"3", "4", "5", "6", "7", "8">>
PE      == <<"(", "4", "5", "6", ")", " ", "7", "8", "9">>
PShort1 == <<"1", "1", "2">>
PShort2 == <<"e", "x", "t", " ", "4", "5">>

\* raw emails: EA and EA2 have one key, EBlank has the empty key
EA     == <<"a", "l", "@", "x", ".", "i", "o">>
EA2    == <<" ", "A", "l", "+", "w", "@", "X", ".", "i", "o">>
EB     == <<"A", ".", "L", "@", "x", ".", "i", "o">>
EBlank == <<" ">>

A1   == Address(<<"1", " ", "E", "l", "m">>, <<"R", "o", "m", "e">>, << >>, << >>, << >>, <<"1", " ", "E", "l", "m", ",", " ", "R", "o", "m", "e">>)
A1b  == Address(<<" ", "1", " ", "E", "L", "M">>, <<"r", "o", "m", "e", " ">>, << >>, << >>, << >>, << >>)
A0   == Address(<< >>, << >>, << >>, << >>, << >>, << >>)

U1     == <<"x", ".", "i", "o", "/", "a">>
U1b    == <<"X", ".", "i", "o", "/", "A">>
U2     == <<"x", ".", "i", "o", "/", "b">>
UEmpty == << >>

\* raw names: NA and NA2 have one key
NA  == <<"A", "l", " ", "P", "e">>
NA2 == <<"D", "r", ".", " ", " ", "A", "L", " ", "P", "e-acute", " ", "j", "r">>
NB  == <<"B", "o", " ", "L", "i">>

Person(name, phones, emails, addresses) ==
  [EmptyContact EXCEPT !.FormattedName = name, !.Phones = phones,
                       !.Emails = emails, !.Addresses = addresses]

\* the contacts handed to the index
ContactPool ==
  { Person(NA,  << >>, << >>, << >>),
    Person(NA,  <<PA>>, << >>, << >>),
    Person(NA2, <<PB>>, << >>, << >>),
    Person(NA,  <<PShort1>>, <<EA>>, << >>),
    Person(NA2, <<PShort2>>, <<EB>>, << >>),
    Person(NA,  <<PB, PC, PD, PE>>, << >>, << >>),
    Person(NA2, << >>, << >>, <<A1>>),
    Person(NB,  <<PA2>>, << >>, << >>),
    Person(NB,  <<PD, PA2>>, <<EA2>>, << >>),
    Person(<< >>, <<PA, PA2>>, <<EB>>, << >>),
    Person(<< >>, << >>, << >>, << >>),
    [EmptyContact EXCEPT !.GivenName = <<"a", "l">>, !.FamilyName = <<"P", "E">>, !.Phones = <<PE>>] }

\* sequences of at most n elements of the set S
SeqsUpTo(S, n) == UNION {[1..k -> S] : k \in 0..n}

ScalarFields ==
  {"FormattedName", "GivenName", "FamilyName", "MiddleName", "Prefix", "Suffix",
   "Organization", "Title", "Birthday", "Photo"}

ListFields == {"Emails", "Phones", "Addresses", "URLs"}

ItemPool(f) ==
  CASE f = "Emails"    -> {EA, EA2, EB, EBlank}
    [] f = "Phones"    -> {PA, PA2, PB, PShort1}
    [] f = "Addresses" -> {A1, A1b, A0}
    [] f = "URLs"      -> {U1, U1b, U2, UEmpty}

Note1 == <<"m", "e", "t", " ", "i", "n", " ", "R", "o", "m", "e">>
Note2 == <<"c", "a", "l", "l", " ", "b", "a", "c", "k">>

\* a contact with every field set
FullContact(name, other, phones, emails, addresses, urls, note) ==
  [FormattedName |-> name, GivenName |-> other, FamilyName |-> other,
   MiddleName |-> other, Prefix |-> other, Suffix |-> other,
   Emails |-> emails, Phones |-> phones, Addresses |-> addresses,
   Organization |-> other, Title |-> other, URLs |-> urls,
   Note |-> note, Birthday |-> other, Photo |-> other, ObjectID |-> << >>]

\* the contacts handed to MergeContacts: the zero contact, the contacts with
\* one field set, and two contacts with every field set
MergePool ==
  {EmptyContact}
  \cup {[EmptyContact EXCEPT ![f] = v] : f \in ScalarFields, v \in {NA, NB}}
  \cup UNION {{[EmptyContact EXCEPT ![f] = l] : l \in SeqsUpTo(ItemPool(f), MaxItems)}
              : f \in ListFields}
  \cup {[EmptyContact EXCEPT !.Note = n] : n \in {Note1, Note2}}
  \cup {FullContact(NA, NB, <<PA, PB>>, <<EA>>, <<A1>>, <<U1>>, Note1),
        FullContact(NB, NA, <<PShort1, PA2>>, <<EBlank, EA2, EB>>, <<A0, A1b>>,
                    <<U1b, UEmpty, U2>>, Note2)}

\* ---------------------------------------------------------------- the state

VARIABLES
  contacts,   \* the Contact objects, by pointer: contacts[p]
  byPhone,    \* DedupIndex.byPhone: key -> sequence of pointers
  byEmail,    \* DedupIndex.byEmail
  byName,     \* DedupIndex.byName
  call,       \* the last call: [op, p, c], c the contact passed, p its pointer
  matches,    \* the slice returned by FindDuplicates in the last IsDuplicate
  isDup,      \* the value returned by the last IsDuplicate
  merged,     \* the value returned by the last MergeContacts
  old,        \* contacts as it was when the last MergeContacts was called
  nMerges,    \* the number of MergeContacts calls made
  input,      \* the slice of contacts a batch import works through
  pos,        \* the number of contacts of input the batch loop has handled
  arg,        \* the argument of the last call of a pure function
  ret,        \* the value that call returned
  flags,      \* the import command's flags merge-duplicates and skip-duplicates
  store,      \* the objects of the Anytype space: a sequence of [ID, data]
  counts,     \* successCount, skippedCount and mergedCount of importContacts
  enriched    \* the pointers of the contacts a merge of the import loop changed

vars ==
  <<contacts, byPhone, byEmail, byName, call, matches, isDup, merged, old, nMerges,
    input, pos, arg, ret, flags, store, counts, enriched>>

\* the variables of the batch loop and of the calls of pure functions
NoBatch == input = << >> /\ pos = 0
NoPure  == arg = << >> /\ ret = << >>

NoCounts == [successCount |-> 0, skippedCount |-> 0, mergedCount |-> 0]

\* no import command is running
NoImport ==
  /\ flags = [merge |-> FALSE, skip |-> FALSE]
  /\ store = << >>
  /\ counts = NoCounts
  /\ enriched = {}

EmptyMap == [k \in {} |-> << >>]

NoCall == [op |-> "none", p |-> 0, c |-> EmptyContact]

\* NewDedupIndex(nil)
Init ==
  /\ contacts = << >>
  /\ byPhone = EmptyMap
  /\ byEmail = EmptyMap
  /\ byName = EmptyMap
  /\ call = NoCall
  /\ matches = << >>
  /\ isDup = FALSE
  /\ merged = FALSE
  /\ old = << >>
  /\ nMerges = 0
  /\ NoBatch
  /\ NoImport
  /\ NoPure

\* the caller builds the contact c and calls idx.Add(&c)
Add(c) ==
  /\ Len(contacts) < MaxIndexed
  /\ LET p == Len(contacts) + 1
     IN  /\ contacts' = Append(contacts, c)
         /\ byPhone' = AddByPhone(byPhone, c, p)
         /\ byEmail' = AddByEmail(byEmail, c, p)
         /\ byName' = AddByName(byName, c, p)
         /\ call' = [op |-> "Add", p |-> p, c |-> c]
  /\ matches' = << >>
  /\ isDup' = FALSE
  /\ arg' = << >>
  /\ ret' = << >>
  /\ UNCHANGED <<flags, store, counts, enriched, merged, old, nMerges, input, pos>>

\* the contacts a caller may ask about: one it has indexed (its pointer), or a
\* new one that is no object of the index (pointer 0)
Queries ==
  {[p |-> 0, c |-> c] : c \in ContactPool} \cup
  {[p |-> p, c |-> contacts[p]] : p \in 1..Len(contacts)}

\* idx.IsDuplicate(c), with the call of idx.FindDuplicates(c) it makes:
\* matches is the slice that call returns
IsDuplicate(q) ==
  /\ matches' = FindDuplicatesOf(contacts, byPhone, byEmail, byName, q.c, q.p)
  /\ isDup' = (Len(matches') > 0)
  /\ call' = [op |-> "IsDuplicate", p |-> q.p, c |-> q.c]
  /\ arg' = << >>
  /\ ret' = << >>
  /\ UNCHANGED <<flags, store, counts, enriched, contacts, byPhone, byEmail, byName, merged, old, nMerges, input, pos>>

Next ==
  \/ \E c \in ContactPool : Add(c)
  \/ \E q \in Queries : IsDuplicate(q)

Spec == Init /\ [][Next]_vars

\* MergeContacts is called on two contacts: dst at pointer 1, src at pointer 2
InitMerge ==
  /\ \E d \in MergePool, s \in MergePool : contacts = <<d, s>>
  /\ byPhone = EmptyMap
  /\ byEmail = EmptyMap
  /\ byName = EmptyMap
  /\ call = NoCall
  /\ matches = << >>
  /\ isDup = FALSE
  /\ merged = FALSE
  /\ old = << >>
  /\ nMerges = 0
  /\ NoBatch
  /\ NoImport
  /\ NoPure

\* a merge that moves the note out of src instead of copying it
Merge_movesNote(d, s) ==
  /\ nMerges < MaxMerges
  /\ LET r == MergeContacts(contacts[d], contacts[s])
     IN  /\ contacts' = [contacts EXCEPT ![d] = r.dst, ![s].Note = << >>]
         /\ merged' = r.merged
  /\ old' = contacts
  /\ call' = [op |-> "MergeContacts", p |-> d, c |-> contacts[s]]
  /\ nMerges' = nMerges + 1
  /\ UNCHANGED <<flags, store, counts, enriched, byPhone, byEmail, byName, matches, isDup, input, pos, arg, ret>>

\* MergeContacts(dst, src) on the objects at the pointers d and s
Merge(d, s) ==
  /\ nMerges < MaxMerges
  /\ LET r == MergeContacts(contacts[d], contacts[s])
     IN  /\ contacts' = [contacts EXCEPT ![d] = r.dst]
         /\ merged' = r.merged
  /\ old' = contacts
  /\ call' = [op |-> "MergeContacts", p |-> d, c |-> contacts[s]]
  /\ nMerges' = nMerges + 1
  /\ UNCHANGED <<flags, store, counts, enriched, byPhone, byEmail, byName, matches, isDup, input, pos, arg, ret>>

NextMerge == Merge(1, 2)

SpecMerge == InitMerge /\ [][NextMerge]_vars

\* ------------------------------------------------------- the batch import

MaxBatch == 3

\* the contacts of the short batches
BatchPool ==
  { Person(NA,  <<PA>>, << >>, << >>),
    Person(NB,  <<PA2>>, << >>, << >>),
    Person(NA,  <<PShort1>>, <<EA>>, << >>),
    Person(NA2, <<PShort2>>, <<EB>>, << >>),
    Person(NB,  <<PD, PA2>>, <<EA2>>, << >>),
    Person(NA,  <<PB, PC, PD, PE>>, << >>, << >>),
    Person(<< >>, <<PA>>, << >>, << >>),
    Person(<< >>, << >>, << >>, << >>) }

\* the seven records of the end-to-end scenario, in order
Scenario ==
  << Person(<<"J", "o", "h", "n", " ", "D", "o", "e">>, <<<<"+", "1", "-", "5", "5", "5", "-", "1", "1", "1", "-", "1", "1", "1", "1">>>>, <<<<"j", "o", "h", "n", "@", "e", "x", "a", "m", "p", "l", "e", ".", "c", "o", "m">>>>, << >>),
     Person(<<"J", "o", "h", "n", "n", "y", " ", "D", "o", "e">>, <<<<"5", "5", "5", "-", "1", "1", "1", "-", "1", "1", "1", "1">>>>, << >>, << >>),
     Person(<<"J", ".", " ", "D", "o", "e">>, << >>, <<<<"j", "o", "h", "n", "+", "w", "o", "r", "k", "@", "e", "x", "a", "m", "p", "l", "e", ".", "c", "o", "m">>>>, << >>),
     Person(<<"D", "r", ".", " ", "J", "o", "h", "n", " ", "D", "o", "e">>, <<<<"5", "5", "5", "-", "1", "1", "1", "-", "1", "1", "1", "1">>>>, << >>, << >>),
     Person(<<"J", "a", "n", "e", " ", "S", "m", "i", "t", "h">>, <<<<"+", "4", "4", " ", "2", "0", " ", "7", "1", "2", "3", " ", "4", "5", "6", "7">>>>, << >>, << >>),
     Person(<<"J", "a", "n", "e", " ", "S", "m", "i", "t", "h">>, <<<<"0", "2", "0", " ", "7", "1", "2", "3", " ", "4", "5", "6", "7">>>>, << >>, << >>),
     Person(<<"B", "o", "b", " ", "J", "o", "h", "n", "s", "o", "n">>, <<<<"5", "5", "5", "-", "3", "3", "3", "-", "3", "3", "3", "3">>>>, << >>, << >>) >>

\* the batches handed to the loop
Batches == {Scenario} \cup SeqsUpTo(BatchPool, MaxBatch)

\* "idx := NewDedupIndex(nil)" and the slice the loop ranges over
InitBatch ==
  /\ contacts = << >>
  /\ byPhone = EmptyMap
  /\ byEmail = EmptyMap
  /\ byName = EmptyMap
  /\ call = NoCall
  /\ matches = << >>
  /\ isDup = FALSE
  /\ merged = FALSE
  /\ old = << >>
  /\ nMerges = 0
  /\ input \in Batches
  /\ pos = 0
  /\ NoPure
  /\ NoImport

\* one turn of the loop "if !idx.IsDuplicate(c) { idx.Add(c) }" on the next
\* contact of the slice; c is no object of the index until it is added
BatchDedup ==
  /\ pos < Len(input)
  /\ LET c  == input[pos + 1]
         p  == Len(contacts) + 1
         ms == FindDuplicatesOf(contacts, byPhone, byEmail, byName, c, 0)
     IN  /\ matches' = ms
         /\ isDup' = (Len(ms) > 0)
         /\ IF Len(ms) > 0
            THEN /\ call' = [op |-> "IsDuplicate", p |-> 0, c |-> c]
                 /\ UNCHANGED <<contacts, byPhone, byEmail, byName>>
            ELSE /\ contacts' = Append(contacts, c)
                 /\ byPhone' = AddByPhone(byPhone, c, p)
                 /\ byEmail' = AddByEmail(byEmail, c, p)
                 /\ byName' = AddByName(byName, c, p)
                 /\ call' = [op |-> "Add", p |-> p, c |-> c]
  /\ pos' = pos + 1
  /\ UNCHANGED <<flags, store, counts, enriched, merged, old, nMerges, input, arg, ret>>

\* the body of that loop as a function of the index: st holds the indexed
\* contacts and the three maps
BatchStep(st, c) ==
  IF Len(FindDuplicatesOf(st.contacts, st.byPhone, st.byEmail, st.byName, c, 0)) > 0
  THEN st
  ELSE [contacts |-> Append(st.contacts, c),
        byPhone  |-> AddByPhone(st.byPhone, c, Len(st.contacts) + 1),
        byEmail  |-> AddByEmail(st.byEmail, c, Len(st.contacts) + 1),
        byName   |-> AddByName(st.byName, c, Len(st.contacts) + 1)]

\* the index after the loop has gone through the slice cs
RECURSIVE BatchLoop(_, _)
BatchLoop(st, cs) ==
  IF cs = << >> THEN st ELSE BatchLoop(BatchStep(st, Head(cs)), Tail(cs))

\* the number of contacts indexed by the loop over cs from an empty index
BatchCount(cs) ==
  Len(BatchLoop([contacts |-> << >>, byPhone |-> EmptyMap, byEmail |-> EmptyMap,
                 byName |-> EmptyMap], cs).contacts)

NextBatch == BatchDedup

SpecBatch == InitBatch /\ [][NextBatch]_vars

\* ------------------------------------------------------- the comparator

O1 == <<"A", "c", "m", "e">>
O2 == <<"I", "n", "i", "t">>
B1 == <<"1", "9", "9", "0", "-", "0", "1", "-", "0", "2">>
B2 == <<"1", "9", "8", "5", "-", "0", "5", "-", "0", "5">>

Named(name, phones, emails, org, birthday) ==
  [EmptyContact EXCEPT !.FormattedName = name, !.Phones = phones, !.Emails = emails,
                       !.Organization = org, !.Birthday = birthday]

\* the contacts handed to CompareContacts
ComparePool ==
  { Named(NA,  << >>, << >>, << >>, << >>),
    Named(NA,  << >>, << >>, O1, B1),
    Named(NA,  << >>, << >>, O1, B2),
    Named(NA,  << >>, << >>, O2, B1),
    Named(NA2, << >>, << >>, O1, B1),
    Named(NA,  <<PShort1>>, <<EBlank>>, << >>, << >>),
    Named(NA2, <<PShort2, PA>>, << >>, O2, << >>),
    Named(NB,  <<PA2>>, <<EA2>>, O1, B1),
    Named(NB,  <<PB>>, <<EA>>, << >>, << >>),
    Named(NB,  << >>, <<EB>>, << >>, B2),
    Named(<< >>, <<PA, PA2>>, <<EB>>, << >>, << >>),
    Named(<< >>, <<PShort1>>, <<EBlank>>, << >>, B1),
    Named(<< >>, << >>, << >>, << >>, B1),
    Named(<<"U", "n", "n", "a", "m", "e", "d", " ", " ", "C", "O", "N", "T", "A", "C", "T">>, <<PShort2>>, << >>, << >>, B1),
    Named(EBlank, <<PShort1>>, << >>, O1, << >>),
    Named(EBlank, << >>, << >>, O1, << >>) }

\* CompareContacts(a, b) on the objects at the pointers p and q
Compare(p, q) ==
  /\ arg' = <<contacts[p], contacts[q]>>
  /\ ret' = CompareContacts(contacts[p], contacts[q])
  /\ call' = [op |-> "CompareContacts", p |-> p, c |-> contacts[q]]
  /\ matches' = << >>
  /\ isDup' = FALSE
  /\ UNCHANGED <<flags, store, counts, enriched, contacts, byPhone, byEmail, byName, merged, old, nMerges, input, pos>>

\* the contacts indexed, asked about and compared with each other
NextCompare ==
  \/ \E c \in ComparePool : Add(c)
  \/ \E p \in 1..Len(contacts) : IsDuplicate([p |-> p, c |-> contacts[p]])
  \/ \E p \in 1..Len(contacts), q \in 1..Len(contacts) : Compare(p, q)

SpecCompare == Init /\ [][NextCompare]_vars

\* ------------------------------------------------------ the normalizers

MaxPhoneTokens == 4
MaxEmailTokens == 4

\* the strings of a sequence of strings, one after the other
RECURSIVE Flatten(_)
Flatten(ts) == IF ts = << >> THEN << >> ELSE Head(ts) \o Flatten(Tail(ts))

\* the pieces phone numbers are put together from: runs of digits, signs,
\* a space, letters, and a digit that is not an ASCII digit
PhoneTokens ==
  {<<"1">>, <<"2", "3">>, <<"4", "5", "6">>, <<"7", "8", "9", "0">>, <<"+">>, <<" ">>, <<"-", "x">>, <<"arabic-three">>}

PhoneInputs == {Flatten(ts) : ts \in SeqsUpTo(PhoneTokens, MaxPhoneTokens)}

\* the caller holds a phone string
InitPhone ==
  /\ contacts = << >>
  /\ byPhone = EmptyMap
  /\ byEmail = EmptyMap
  /\ byName = EmptyMap
  /\ call = NoCall
  /\ matches = << >>
  /\ isDup = FALSE
  /\ merged = FALSE
  /\ old = << >>
  /\ nMerges = 0
  /\ NoBatch
  /\ NoImport
  /\ arg \in PhoneInputs
  /\ ret = << >>

\* NormalizePhoneForDedup(arg)
NormalizePhone ==
  /\ call.op = "none"
  /\ ret' = NormalizePhoneForDedup(arg)
  /\ call' = [op |-> "NormalizePhoneForDedup", p |-> 0, c |-> EmptyContact]
  /\ UNCHANGED <<flags, store, counts, enriched, contacts, byPhone, byEmail, byName, matches, isDup, merged, old,
                 nMerges, input, pos, arg>>

NextPhone == NormalizePhone

SpecPhone == InitPhone /\ [][NextPhone]_vars

\* the pieces addresses are put together from: letters of both cases, the
\* signs the normalizer looks at, a space, and the two Gmail domains
EmailTokens ==
  {<<"a">>, <<"B">>, <<".">>, <<"+">>, <<"@">>, <<" ">>, <<"G", "m", "a", "i", "l", ".", "c", "o", "m">>, <<"g", "o", "o", "g", "l", "e", "m", "a", "i", "l", ".", "c", "o", "m">>}

EmailInputs == {Flatten(ts) : ts \in SeqsUpTo(EmailTokens, MaxEmailTokens)}

\* the caller holds an email string
InitEmail ==
  /\ contacts = << >>
  /\ byPhone = EmptyMap
  /\ byEmail = EmptyMap
  /\ byName = EmptyMap
  /\ call = NoCall
  /\ matches = << >>
  /\ isDup = FALSE
  /\ merged = FALSE
  /\ old = << >>
  /\ nMerges = 0
  /\ NoBatch
  /\ NoImport
  /\ arg \in EmailInputs
  /\ ret = << >>

\* NormalizeEmailForDedup(arg)
NormalizeEmail ==
  /\ call.op = "none"
  /\ ret' = NormalizeEmailForDedup(arg)
  /\ call' = [op |-> "NormalizeEmailForDedup", p |-> 0, c |-> EmptyContact]
  /\ UNCHANGED <<flags, store, counts, enriched, contacts, byPhone, byEmail, byName, matches, isDup, merged, old,
                 nMerges, input, pos, arg>>

NextEmail == NormalizeEmail

SpecEmail == InitEmail /\ [][NextEmail]_vars

MaxNameWords == 3

\* the words names are put together from: honorifics, name words (one with
\* an accent) and suffixes; the words of a name stand two spaces apart
NameWords ==
  {<<"D", "r", ".">>, <<"M", "r">>, <<"p", "r", "o", "f">>, <<"A", "l">>, <<"P", "e-acute">>, <<"J", "r", ".">>, <<"M", "D">>, <<"I", "I">>}

NameInputs == {Join(ws, <<" ", " ">>) : ws \in SeqsUpTo(NameWords, MaxNameWords)}

\* the caller holds a name string
InitName ==
  /\ contacts = << >>
  /\ byPhone = EmptyMap
  /\ byEmail = EmptyMap
  /\ byName = EmptyMap
  /\ call = NoCall
  /\ matches = << >>
  /\ isDup = FALSE
  /\ merged = FALSE
  /\ old = << >>
  /\ nMerges = 0
  /\ NoBatch
  /\ NoImport
  /\ arg \in NameInputs
  /\ ret = << >>

\* NormalizeNameForDedup(arg)
NormalizeName ==
  /\ call.op = "none"
  /\ ret' = NormalizeNameForDedup(arg)
  /\ call' = [op |-> "NormalizeNameForDedup", p |-> 0, c |-> EmptyContact]
  /\ UNCHANGED <<flags, store, counts, enriched, contacts, byPhone, byEmail, byName, matches, isDup, merged, old,
                 nMerges, input, pos, arg>>

NextName == NormalizeName

SpecName == InitName /\ [][NextName]_vars

\* ------------------------------------------------------ the import command

\* the longest slice of parsed contacts the command is given
MaxImport == 3

NC == <<"C", "y", " ", "W", "u">>

\* the contacts of the vCard files: two that share the phone PB, two that share
\* the phone PC, and a contact with nothing but the name of the first and an
\* email
ImportPool ==
  { Person(NA, <<PB>>, << >>, << >>),
    Person(NB, <<PB, PC>>, << >>, << >>),
    Person(NC, <<PC>>, << >>, << >>),
    Person(NA, << >>, <<EA>>, << >>) }

\* the ID the space gives the n-th object created in it
ObjectIDOf(n) == <<"o", <<"1", "2", "3", "4", "5", "6", "7", "8", "9">>[n]>>

\* what the space holds of a contact: the properties built from its fields; the
\* ObjectID is no property
Properties(contact) == [contact EXCEPT !.ObjectID = << >>]

\* the space before the command runs: empty, or with one contact in it
ExistingStores ==
  { << >>,
    <<[ID |-> ObjectIDOf(1), data |-> Person(NA, <<PB>>, << >>, << >>)]>> }

\* anytypeObjectToContact: the contact of an object carries the object's ID
anytypeObjectToContact(obj) == [obj.data EXCEPT !.ObjectID = obj.ID]

\* NewDedupIndex(contacts): Add for every contact, in order
RECURSIVE NewDedupIndex(_)
NewDedupIndex(cs) ==
  IF cs = << >>
  THEN [byPhone |-> EmptyMap, byEmail |-> EmptyMap, byName |-> EmptyMap]
  ELSE LET n   == Len(cs)
           idx == NewDedupIndex(SubSeq(cs, 1, n - 1))
       IN  [byPhone |-> AddByPhone(idx.byPhone, cs[n], n),
            byEmail |-> AddByEmail(idx.byEmail, cs[n], n),
            byName  |-> AddByName(idx.byName, cs[n], n)]

\* a merge-duplicates flag that skip-duplicates does not override
mergeDuplicates_skipIgnored == flags.merge

\* mergeDuplicates := cmd.Bool("merge-duplicates") && !skipDuplicates
mergeDuplicates == flags.merge /\ ~flags.skip

\* fetchExistingContacts: the contacts of the objects of the space
fetchExistingContacts(st) == [i \in DOMAIN st |-> anytypeObjectToContact(st[i])]

\* vcard.Import: one Create request; ok says whether the client succeeds.  The
\* ID of the created object is dropped
Import(st, contact, ok) ==
  IF ok
  THEN [err |-> "",
        store |-> Append(st, [ID |-> ObjectIDOf(Len(st) + 1),
                              data |-> Properties(contact)])]
  ELSE [err |-> "create failed", store |-> st]

\* vcard.Update: an error for a contact without ObjectID, else one Update
\* request on the object of that ID; ok says whether the client succeeds
Update(st, contact, ok) ==
  IF contact.ObjectID = << >>
  THEN [err |-> "contact has no ObjectID", store |-> st]
  ELSE IF ok
       THEN [err |-> "",
             store |-> [i \in DOMAIN st |->
                          IF st[i].ID = contact.ObjectID
                          THEN [st[i] EXCEPT !.data = Properties(contact)]
                          ELSE st[i]]]
       ELSE [err |-> "update failed", store |-> st]

\* importVCards up to the call of importContacts: the flags are read, the
\* files are parsed, and the index is built from the space when one of the
\* flags asks for duplicates to be looked for
InitImport ==
  /\ flags \in [merge : BOOLEAN, skip : BOOLEAN]
  /\ store \in ExistingStores
  /\ input \in SeqsUpTo(ImportPool, MaxImport)
  /\ pos = 0
  /\ contacts = IF flags.skip \/ mergeDuplicates
                THEN fetchExistingContacts(store) ELSE << >>
  /\ LET idx == NewDedupIndex(contacts)
     IN  /\ byPhone = idx.byPhone
         /\ byEmail = idx.byEmail
         /\ byName = idx.byName
  /\ call = NoCall
  /\ matches = << >>
  /\ isDup = FALSE
  /\ merged = FALSE
  /\ old = << >>
  /\ nMerges = 0
  /\ counts = NoCounts
  /\ enriched = {}
  /\ NoPure

\* the branch of the loop for a contact that has duplicates
HandleDuplicate(c, duplicates, ok) ==
  IF mergeDuplicates
  THEN LET existing == duplicates[1]
           r        == MergeContacts(contacts[existing], c)
       IN  /\ nMerges' = nMerges + 1
           /\ merged' = r.merged
           /\ contacts' = [contacts EXCEPT ![existing] = r.dst]
           /\ IF r.merged
              THEN LET u == Update(store, r.dst, ok)
                   IN  /\ enriched' = enriched \cup {existing}
                       /\ store' = u.store
                       /\ IF u.err # ""
                          THEN /\ call' = [op |-> "updateError", p |-> existing,
                                           c |-> c, err |-> u.err]
                               /\ counts' = counts
                          ELSE /\ call' = [op |-> "merged", p |-> existing,
                                           c |-> c, err |-> ""]
                               /\ counts' = [counts EXCEPT !.mergedCount = @ + 1]
              ELSE /\ call' = [op |-> "nothingNew", p |-> existing, c |-> c,
                               err |-> ""]
                   /\ counts' = [counts EXCEPT !.skippedCount = @ + 1]
                   /\ UNCHANGED <<store, enriched>>
  ELSE /\ call' = [op |-> "skipped", p |-> duplicates[1], c |-> c, err |-> ""]
       /\ counts' = [counts EXCEPT !.skippedCount = @ + 1]
       /\ merged' = FALSE
       /\ UNCHANGED <<contacts, store, enriched, nMerges>>

\* a loop that indexes the contact whether or not the space took it
ImportNew_indexedAnyway(c, ok) ==
  LET r == Import(store, c, ok)
      p == Len(contacts) + 1
  IN  /\ store' = r.store
      /\ contacts' = Append(contacts, c)
      /\ byPhone' = AddByPhone(byPhone, c, p)
      /\ byEmail' = AddByEmail(byEmail, c, p)
      /\ byName' = AddByName(byName, c, p)
      /\ IF r.err # ""
         THEN /\ call' = [op |-> "importError", p |-> 0, c |-> c, err |-> r.err]
              /\ counts' = counts
         ELSE /\ call' = [op |-> "imported", p |-> p, c |-> c, err |-> ""]
              /\ counts' = [counts EXCEPT !.successCount = @ + 1]

\* the rest of the loop, for a contact without duplicates: importContact, and
\* when it succeeded dedupIndex.Add and successCount++
ImportNew(c, ok) ==
  LET r == Import(store, c, ok)
      p == Len(contacts) + 1
  IN  /\ store' = r.store
      /\ IF r.err # ""
         THEN /\ call' = [op |-> "importError", p |-> 0, c |-> c, err |-> r.err]
              /\ UNCHANGED <<contacts, byPhone, byEmail, byName, counts>>
         ELSE /\ contacts' = Append(contacts, c)
              /\ byPhone' = AddByPhone(byPhone, c, p)
              /\ byEmail' = AddByEmail(byEmail, c, p)
              /\ byName' = AddByName(byName, c, p)
              /\ call' = [op |-> "imported", p |-> p, c |-> c, err |-> ""]
              /\ counts' = [counts EXCEPT !.successCount = @ + 1]

\* one turn of the loop of importContacts on the next contact of the slice;
\* ok says whether the request the turn sends to the space, if it sends one,
\* succeeds
ImportContact(ok) ==
  /\ pos < Len(input)
  /\ \E c \in {input[pos + 1]} :
     \E duplicates \in {FindDuplicatesOf(contacts, byPhone, byEmail, byName, c, 0)} :
         /\ matches' = duplicates
         /\ isDup' = (Len(duplicates) > 0)
         /\ IF Len(duplicates) > 0
            THEN /\ HandleDuplicate(c, duplicates, ok)
                 /\ UNCHANGED <<byPhone, byEmail, byName>>
            ELSE /\ ImportNew(c, ok)
                 /\ merged' = FALSE
                 /\ UNCHANGED <<enriched, nMerges>>
  /\ old' = contacts
  /\ pos' = pos + 1
  /\ UNCHANGED <<flags, input, arg, ret>>

NextImport == \E ok \in BOOLEAN : ImportContact(ok)

SpecImport == InitImport /\ [][NextImport]_vars

\* ------------------------------------------------ vocabulary of the claims

Indexed == 1..Len(contacts)

\* the indexed objects other than the contact passed to the last call
Others == Indexed \ {call.p}

CommonPhoneKeys(a, b) == Range(PhoneKeys(a)) \cap Range(PhoneKeys(b))
CommonEmailKeys(a, b) == Range(EmailKeys(a)) \cap Range(EmailKeys(b))

SharesNonEmptyKey(a, b) ==
  \/ CommonPhoneKeys(a, b) \ {<< >>} # {}
  \/ CommonEmailKeys(a, b) \ {<< >>} # {}

NoCommonKey(a, b) == CommonPhoneKeys(a, b) = {} /\ CommonEmailKeys(a, b) = {}

OnlyEmptyKeyInCommon(a, b) == ~SharesNonEmptyKey(a, b) /\ ~NoCommonKey(a, b)

SameName(a, b) ==
  /\ NameKey(a) = NameKey(b)
  /\ NameKey(a) # << >>
  /\ NameKey(a) # <<"u", "n", "n", "a", "m", "e", "d", " ", "c", "o", "n", "t", "a", "c", "t">>

\* "zero emails, at most 3 phones and zero addresses"
Minimal(c) == Len(c.Emails) = 0 /\ Len(c.Phones) <= 3 /\ Len(c.Addresses) = 0

\* --------------------------------------------------------------- the claims

\* C1: a candidate whose only phone/email key in common with the query is the
\* empty string is not accepted on the strength of that overlap: if it is
\* returned by FindDuplicates, the name rule's other ground holds (same name
\* and one of the two is minimal).
C1_EmptyKeyNeverJoins ==
  call.op = "IsDuplicate" =>
    \A p \in Range(matches) :
      OnlyEmptyKeyInCommon(call.c, contacts[p]) =>
        SameName(call.c, contacts[p]) /\ (Minimal(call.c) \/ Minimal(contacts[p]))

C3_SameNameNoKeyNotDuplicate ==
  (/\ call.op = "IsDuplicate"
   /\ Others # {}
   /\ \A p \in Others :
        SameName(call.c, contacts[p]) /\ NoCommonKey(call.c, contacts[p]))
  => isDup = FALSE

C5_SharedKeyIsReturned ==
  call.op = "IsDuplicate" =>
    \A p \in Others :
      SharesNonEmptyKey(call.c, contacts[p]) => p \in Range(matches)

\* C5 witness: two indexed contacts returned for a query of another name, one
\* through a phone written differently and one through an email written
\* differently.
C5_Witness ==
  /\ call.op = "IsDuplicate"
  /\ \E p, r \in Others :
       /\ p # r
       /\ {p, r} \subseteq Range(matches)
       /\ NameKey(contacts[p]) # NameKey(call.c)
       /\ NameKey(contacts[r]) # NameKey(call.c)
       /\ CommonPhoneKeys(call.c, contacts[p]) \ {<< >>} # {}
       /\ Range(contacts[p].Phones) \cap Range(call.c.Phones) = {}
       /\ CommonEmailKeys(call.c, contacts[r]) \ {<< >>} # {}
       /\ Range(contacts[r].Emails) \cap Range(call.c.Emails) = {}

\* the arguments and the result of the last MergeContacts(dst, src)
MergeDone == call.op = "MergeContacts"
DstBefore == old[call.p]
DstAfter  == contacts[call.p]
Src       == call.c

Fields16 == DOMAIN EmptyContact

\* the key of one item of a multi-valued field
ItemKey(f, item) ==
  CASE f = "Emails"    -> NormalizeEmailForDedup(item)
    [] f = "Phones"    -> NormalizePhoneForDedup(item)
    [] f = "Addresses" -> normalizeAddress(item)
    [] f = "URLs"      -> ToLower(item)

ItemKeys(f, items) == {ItemKey(f, items[i]) : i \in 1..Len(items)}

IsPrefix(a, b) == Len(a) <= Len(b) /\ \A i \in 1..Len(a) : a[i] = b[i]

\* b with its first n items dropped
DropFirst(b, n) == [i \in 1..(Len(b) - n) |-> b[n + i]]

\* a is b with some items left out
RECURSIVE IsSubsequence(_, _)
IsSubsequence(a, b) ==
  IF a = << >> THEN TRUE
  ELSE IF b = << >> THEN FALSE
  ELSE IF Head(a) = Head(b) THEN IsSubsequence(Tail(a), Tail(b))
  ELSE IsSubsequence(a, Tail(b))

\* C6: MergeContacts returns true iff some field of dst differs after the
\* call from what it was before; in particular on false every field of dst
\* is as it was.
C6_MergedIffChanged ==
  MergeDone => (merged <=> \E f \in Fields16 : DstAfter[f] # DstBefore[f])

\* C6 witness: a merge that returns false and changes nothing although src
\* is not empty and differs from dst.
C6_Witness ==
  /\ MergeDone
  /\ merged = FALSE
  /\ DstAfter = DstBefore
  /\ Src # EmptyContact
  /\ Src # DstBefore
  /\ \E f \in ListFields : Src[f] # << >> /\ Src[f] # DstBefore[f]

\* C7: a scalar field of dst changes only from empty to src's non-empty
\* value; a non-empty scalar of dst keeps its value.
C7_ScalarsFilledNeverOverwritten ==
  MergeDone =>
    \A f \in ScalarFields :
      /\ DstBefore[f] # << >> => DstAfter[f] = DstBefore[f]
      /\ DstAfter[f] # DstBefore[f] =>
           DstBefore[f] = << >> /\ Src[f] # << >> /\ DstAfter[f] = Src[f]

\* C7 witness: src has a value for a scalar dst already has (kept) and for a
\* scalar dst lacks (copied).
C7_Witness ==
  /\ MergeDone
  /\ \E f, g \in ScalarFields :
       /\ DstBefore[f] # << >> /\ Src[f] # << >> /\ Src[f] # DstBefore[f]
       /\ DstAfter[f] = DstBefore[f]
       /\ DstBefore[g] = << >> /\ Src[g] # << >> /\ DstAfter[g] = Src[g]

\* the merge of one multi-valued field as C8 states it: a src item is
\* appended exactly when its key is not among the keys of dst's current items
RECURSIVE AppendAbsent(_, _, _)
AppendAbsent(f, items, srcItems) ==
  IF srcItems = << >> THEN items
  ELSE IF ItemKey(f, Head(srcItems)) \notin ItemKeys(f, items)
       THEN AppendAbsent(f, Append(items, Head(srcItems)), Tail(srcItems))
       ELSE AppendAbsent(f, items, Tail(srcItems))

\* the same, appending only the items whose key is not empty
RECURSIVE AppendAbsentNonEmpty(_, _, _)
AppendAbsentNonEmpty(f, items, srcItems) ==
  IF srcItems = << >> THEN items
  ELSE IF /\ ItemKey(f, Head(srcItems)) \notin ItemKeys(f, items)
          /\ ItemKey(f, Head(srcItems)) # << >>
       THEN AppendAbsentNonEmpty(f, Append(items, Head(srcItems)), Tail(srcItems))
       ELSE AppendAbsentNonEmpty(f, items, Tail(srcItems))

\* C8 as stated: each multi-valued field of dst is its old value with the src
\* items appended, unnormalized, whose key was absent from dst's current keys.
C8_AppendedIffKeyAbsent ==
  MergeDone =>
    \A f \in ListFields : DstAfter[f] = AppendAbsent(f, DstBefore[f], Src[f])

\* C8 amended: a src item is appended, unnormalized, exactly when its key is
\* not empty and is absent from the keys of dst's current items.
C8_AppendedIffKeyAbsentNonEmpty ==
  MergeDone =>
    \A f \in ListFields : DstAfter[f] = AppendAbsentNonEmpty(f, DstBefore[f], Src[f])

\* C8 witness: in one field src has an item with an empty key (left out), an
\* item whose key dst has under another spelling (left out) and an item with
\* a new key (appended as written).
C8_Witness ==
  /\ MergeDone
  /\ \E f \in ListFields : \E i, j, k \in 1..Len(Src[f]) :
       /\ ItemKey(f, Src[f][i]) = << >>
       /\ Src[f][i] \notin Range(DstAfter[f])
       /\ ItemKey(f, Src[f][j]) \in ItemKeys(f, DstBefore[f])
       /\ Src[f][j] \notin Range(DstAfter[f])
       /\ ItemKey(f, Src[f][k]) \notin ItemKeys(f, DstBefore[f]) \cup {<< >>}
       /\ Src[f][k] # ItemKey(f, Src[f][k])
       /\ Src[f][k] \in Range(DstAfter[f])

\* C9: each multi-valued field of dst keeps its old items as a prefix, the
\* items after the prefix are items of src in src's order, and the field's
\* key set contains its old key set.
C9_PrefixKeptAppendedInSrcOrder ==
  MergeDone =>
    \A f \in ListFields :
      /\ IsPrefix(DstBefore[f], DstAfter[f])
      /\ IsSubsequence(DropFirst(DstAfter[f], Len(DstBefore[f])), Src[f])
      /\ ItemKeys(f, DstBefore[f]) \subseteq ItemKeys(f, DstAfter[f])

\* C9 witness: two items appended after a non-empty prefix.
C9_Witness ==
  /\ MergeDone
  /\ \E f \in ListFields :
       /\ Len(DstBefore[f]) > 0
       /\ Len(DstAfter[f]) >= Len(DstBefore[f]) + 2
       /\ IsPrefix(DstBefore[f], DstAfter[f])

\* C10: dst's note is unchanged when src's note is empty or equal to it,
\* becomes src's note when it was empty, and otherwise becomes the old note,
\* "\n\n---\n\n", src's note.
C10_NoteWholeField ==
  MergeDone =>
    DstAfter.Note =
      IF Src.Note = << >> \/ Src.Note = DstBefore.Note THEN DstBefore.Note
      ELSE IF DstBefore.Note = << >> THEN Src.Note
      ELSE DstBefore.Note \o <<"\n", "\n", "-", "-", "-", "\n", "\n">> \o Src.Note

\* C10 witness: two different non-empty notes, joined by the separator.
C10_Witness ==
  /\ MergeDone
  /\ DstBefore.Note # << >>
  /\ Src.Note # << >>
  /\ Src.Note # DstBefore.Note
  /\ Len(DstAfter.Note) = Len(DstBefore.Note) + 7 + Len(Src.Note)

\* C11: merging a contact into a structural copy of itself returns false and
\* leaves the destination equal to the contact
C11_MergeIntoCopyNoChange ==
  (MergeDone /\ DstBefore = Src) => (merged = FALSE /\ DstAfter = Src)

\* a contact with every scalar, a note and several list items, some of them
\* with an empty key, has been merged into its copy
C11_Witness ==
  /\ MergeDone
  /\ DstBefore = Src
  /\ Src.Note # << >> /\ Src.FormattedName # << >>
  /\ Len(Src.Emails) >= 2 /\ Len(Src.Phones) >= 2
  /\ << >> \in ItemKeys("Phones", Src.Phones)
  /\ \E k \in ItemKeys("Emails", Src.Emails) : k # << >>

\* C12: MergeContacts(dst, src) never changes src: every field of every
\* object other than dst, src among them, is after the call what it was before
C12_SrcNeverChanged ==
  MergeDone =>
    \A q \in Indexed \ {call.p} :
      /\ \A f \in Fields16 : contacts[q][f] = old[q][f]
      /\ \E s \in Indexed \ {call.p} : contacts[s] = Src

\* a merge that changed dst, from a src that has list items and a note
C12_Witness ==
  /\ MergeDone
  /\ merged
  /\ DstAfter # DstBefore
  /\ Src.Note # << >> /\ Len(Src.Phones) >= 2
  /\ Len(DstAfter.Phones) > Len(DstBefore.Phones)

\* C13: in a batch import that adds a contact only when IsDuplicate is false
\* for it, no two distinct indexed contacts share a non-empty phone key or a
\* non-empty email key, and the seven-record scenario ends with exactly three
\* indexed contacts
C13_BatchKeepsKeysApart ==
  /\ \A p \in Indexed, q \in Indexed :
       p # q => ~SharesNonEmptyKey(contacts[p], contacts[q])
  /\ (input = Scenario /\ pos = Len(input)) => Len(contacts) = 3

\* the scenario has been worked through: three contacts are indexed, and the
\* last contact skipped shares its phone key with an indexed one
C13_Witness ==
  /\ input = Scenario
  /\ pos = Len(input)
  /\ Len(contacts) = 3
  /\ \E p \in Indexed : SharesNonEmptyKey(contacts[p], input[6])

\* the number of times the pointer p stands in the bucket of key in m
TimesIn(m, key, p) == Cardinality({i \in 1..Len(Bucket(m, key)) : Bucket(m, key)[i] = p})

\* C14: the result of FindDuplicates(c) holds each contact at most once, and
\* never c itself, also when c is indexed
C14_EachOnceNeverSelf ==
  call.op = "IsDuplicate" =>
    /\ \A i \in 1..Len(matches), j \in 1..Len(matches) :
         matches[i] = matches[j] => i = j
    /\ \A i \in 1..Len(matches) :
         matches[i] # call.p /\ matches[i] \in Indexed

\* the query is an indexed contact; a match of it stands twice in one phone
\* bucket and also in an email bucket of the query, and so does the query
C14_Witness ==
  /\ call.op = "IsDuplicate"
  /\ call.p \in Indexed
  /\ \E k \in Range(PhoneKeys(call.c)), e \in Range(EmailKeys(call.c)) :
       /\ TimesIn(byPhone, k, call.p) >= 2
       /\ TimesIn(byEmail, e, call.p) >= 1
       /\ \E m \in Range(matches) :
            TimesIn(byPhone, k, m) >= 2 /\ TimesIn(byEmail, e, m) >= 1

\* the contact has no name: its name key is empty or the sentinel
Unnamed(c) == NameKey(c) = << >> \/ NameKey(c) = UnnamedKey

\* the contact has no usable phone or email key
NoUsableKey(c) == Range(PhoneKeys(c)) \cup Range(EmailKeys(c)) \subseteq {<< >>}

\* C15: unnamed contacts never match by name: a query whose name key is empty
\* or the sentinel gets no match from the name bucket, so every match of it
\* shares a non-empty phone or email key with it, and with no usable key it is
\* no duplicate; CompareContacts returns None when there is no phone or email
\* match and either name key is the sentinel
C15_UnnamedNeverMatchByName ==
  /\ (call.op = "IsDuplicate" /\ Unnamed(call.c)) =>
       /\ \A m \in Range(matches) : SharesNonEmptyKey(call.c, contacts[m])
       /\ NoUsableKey(call.c) => ~isDup
  /\ (/\ call.op = "CompareContacts"
      /\ NameKey(arg[1]) = UnnamedKey \/ NameKey(arg[2]) = UnnamedKey
      /\ ~SharesNonEmptyKey(arg[1], arg[2])) => ret = MatchNone

\* the query has no name and no usable key; another indexed contact stands in
\* the bucket of its name key and has, like it, a phone without a key
C15_Witness ==
  /\ call.op = "IsDuplicate"
  /\ NameKey(call.c) = UnnamedKey
  /\ NoUsableKey(call.c)
  /\ ~isDup
  /\ \E m \in Others :
       /\ m \in Range(Bucket(byName, UnnamedKey))
       /\ << >> \in CommonPhoneKeys(call.c, contacts[m])
       /\ contacts[m].FormattedName # call.c.FormattedName

\* the graded decision for the contacts a and b
Graded(a, b) ==
  IF CommonPhoneKeys(a, b) \ {<< >>} # {} THEN MatchStrong
  ELSE IF CommonEmailKeys(a, b) \ {<< >>} # {} THEN MatchStrong
  ELSE IF UnnamedKey \in {NameKey(a), NameKey(b)} THEN MatchNone
  ELSE IF NameKey(a) = NameKey(b) /\ NameKey(a) # << >>
       THEN IF \/ (a.Organization = b.Organization /\ a.Organization # << >>)
               \/ (a.Birthday = b.Birthday /\ a.Birthday # << >>)
            THEN MatchMedium
            ELSE MatchWeak
       ELSE MatchNone

\* C16: CompareContacts(a, b) follows the graded decision: Strong for a shared
\* non-empty phone key, else Strong for a shared non-empty email key, else None
\* if either name key is the sentinel, else for equal non-empty name keys
\* Medium with the same non-empty organization or birthday and Weak without,
\* else None; organization and birthday together give no more than Medium
C16_GradedDecision ==
  call.op = "CompareContacts" =>
    /\ ret = Graded(arg[1], arg[2])
    /\ (/\ arg[1].Organization = arg[2].Organization /\ arg[1].Organization # << >>
        /\ arg[1].Birthday = arg[2].Birthday /\ arg[1].Birthday # << >>
        /\ ~SharesNonEmptyKey(arg[1], arg[2])) => ret <= MatchMedium

\* two contacts of one name key written differently, with the same
\* organization and the same birthday, compared: Medium
C16_Witness ==
  /\ call.op = "CompareContacts"
  /\ arg[1].FormattedName # arg[2].FormattedName
  /\ NameKey(arg[1]) = NameKey(arg[2])
  /\ arg[1].Organization = arg[2].Organization /\ arg[1].Organization # << >>
  /\ arg[1].Birthday = arg[2].Birthday /\ arg[1].Birthday # << >>
  /\ ret = MatchMedium

\* the ASCII digits of the string x, in order
DigitsOf(x) == SelectSeq(x, LAMBDA r : r \in Digits)

\* the last n elements of the sequence d
LastOf(d, n) == [i \in 1..n |-> d[Len(d) - n + i]]

\* C17: NormalizePhoneForDedup drops every character that is not an ASCII
\* digit and returns the last 9 digits when 9 or more remain, the digits as
\* they are when 6 to 8 remain, and the empty string under 6; so an input of
\* 9 or more digits has the key of any input with the same last 9 digits
C17_PhoneKey ==
  call.op = "NormalizePhoneForDedup" =>
    LET d == DigitsOf(arg)
    IN  /\ Len(d) >= 9 => ret = LastOf(d, 9)
        /\ Len(d) \in 6..8 => ret = d
        /\ Len(d) < 6 => ret = << >>
        /\ Len(d) >= 9 =>
             ret = NormalizePhoneForDedup(<<"(", "0", ")", " ">> \o LastOf(d, 9) \o <<" ", "e", "x", "t">>)

\* a number of more than 9 digits that starts with a sign
C17_Witness ==
  /\ call.op = "NormalizePhoneForDedup"
  /\ Len(DigitsOf(arg)) > 9
  /\ arg[1] = "+"
  /\ Len(ret) = 9
  /\ ret # DigitsOf(arg)

\* the number of times the rune ch stands in the string x
CountOf(x, ch) == Cardinality({i \in 1..Len(x) : x[i] = ch})

\* the part of x before the first ch (all of x when it has none), and the
\* part after it
BeforeFirst(x, ch) ==
  IF ch \in Range(x)
  THEN SubSeq(x, 1, (CHOOSE i \in 1..Len(x) : x[i] = ch /\ \A j \in 1..(i - 1) : x[j] # ch) - 1)
  ELSE x
AfterFirst(x, ch) == SubSeq(x, Len(BeforeFirst(x, ch)) + 2, Len(x))

Gmail      == <<"g", "m", "a", "i", "l", ".", "c", "o", "m">>
Googlemail == <<"g", "o", "o", "g", "l", "e", "m", "a", "i", "l", ".", "c", "o", "m">>

\* the key the rules give the address x of one local part and one domain
RuleKey(x) ==
  LET e      == ToLower(TrimSpace(x))
      local  == BeforeFirst(BeforeFirst(e, "@"), "+")
      dom    == AfterFirst(e, "@")
      domain == IF dom = Googlemail THEN Gmail ELSE dom
  IN  (IF domain = Gmail THEN SelectSeq(local, LAMBDA r : r # ".") ELSE local)
        \o <<"@">> \o domain

\* C18: for an input with a local part and a domain, NormalizeEmailForDedup
\* trims and lowercases it, cuts the local part at its first '+', rewrites
\* googlemail.com to gmail.com, removes the dots of the local part only when
\* the domain is then gmail.com, and returns local@domain; for any other
\* domain the dots of the local part are kept
C18_EmailKey ==
  (call.op = "NormalizeEmailForDedup" /\ CountOf(arg, "@") = 1) =>
    /\ ret = RuleKey(arg)
    /\ AfterFirst(ret, "@") # Gmail =>
         CountOf(BeforeFirst(ret, "@"), ".")
           = CountOf(BeforeFirst(BeforeFirst(arg, "@"), "+"), ".")

\* an address with a capital and a dot in its local part, at googlemail.com
C18_Witness ==
  /\ call.op = "NormalizeEmailForDedup"
  /\ CountOf(arg, "@") = 1
  /\ "B" \in Range(BeforeFirst(arg, "@"))
  /\ "." \in Range(BeforeFirst(arg, "@"))
  /\ AfterFirst(arg, "@") = Googlemail
  /\ ret = <<"b", "@", "g", "m", "a", "i", "l", ".", "c", "o", "m">>

\* C19: an address with two '@' is left intact: its key is the trimmed,
\* lowercased input, with no tag cut, no domain rewritten and no dot removed
C19_TwoAtsLeftIntact ==
  (call.op = "NormalizeEmailForDedup" /\ CountOf(arg, "@") = 2) =>
    ret = ToLower(TrimSpace(arg))

\* C20: email normalization is idempotent: the key of a key is that key
C20_EmailIdempotent ==
  call.op = "NormalizeEmailForDedup" => NormalizeEmailForDedup(ret) = ret

\* the name lowercased, without accents, its words one space apart
Collapsed(x) == Join(Fields(removeAccents(ToLower(x))), <<" ">>)

\* the name x without the one prefix of the list it starts with, if any
OnePrefixOff(x) ==
  IF \E i \in 1..Len(prefixes) : HasPrefix(x, prefixes[i])
  THEN TrimPrefix(x, prefixes[CHOOSE i \in 1..Len(prefixes) : HasPrefix(x, prefixes[i])])
  ELSE x

\* the name x without the one suffix of the list it ends with, if any
OneSuffixOff(x) ==
  IF \E i \in 1..Len(suffixes) : HasSuffix(x, suffixes[i])
  THEN TrimSuffix(x, suffixes[CHOOSE i \in 1..Len(suffixes) : HasSuffix(x, suffixes[i])])
  ELSE x

\* C21: NormalizeNameForDedup strips exactly one honorific prefix that is a
\* whole leading token followed by a space and exactly one suffix that is a
\* trailing token: of two stacked honorifics or suffixes only one is removed,
\* and a bare prefix with nothing after it is not stripped
C21_ExactlyOneHonorific ==
  call.op = "NormalizeNameForDedup" =>
    ret = TrimSpace(OneSuffixOff(OnePrefixOff(Collapsed(arg))))

\* every bucket of the mapping m is a prefix of its bucket in the mapping n
GrowsInto(m, n) ==
  \A k \in DOMAIN m : k \in DOMAIN n /\ IsPrefix(m[k], n[k])

\* C22: the index is append-only: over any sequence of Add, FindDuplicates and
\* IsDuplicate calls every bucket stays a prefix of what it is later, no entry
\* is removed, Add makes no bucket under the empty key, and FindDuplicates and
\* IsDuplicate leave the three mappings as they are
C22_IndexAppendOnly ==
  [][/\ GrowsInto(byPhone, byPhone')
     /\ GrowsInto(byEmail, byEmail')
     /\ GrowsInto(byName, byName')
     /\ << >> \notin DOMAIN byPhone' \cup DOMAIN byEmail' \cup DOMAIN byName'
     /\ call'.op = "IsDuplicate" =>
          byPhone' = byPhone /\ byEmail' = byEmail /\ byName' = byName]_vars

\* a name bucket holds two contacts, a contact with a phone without a key is
\* indexed, and the index has been asked about a contact
C22_Witness ==
  /\ call.op = "IsDuplicate"
  /\ \E k \in DOMAIN byName : Len(byName[k]) >= 2
  /\ \E p \in Indexed : << >> \in Range(PhoneKeys(contacts[p]))
  /\ isDup


\* the loop of importContacts has handled a contact in the last step
Turn(op) == call.op = op /\ pos > 0

\* C23: skip-duplicates overrides merge-duplicates.  When skip-duplicates is
\* set, no turn of the import loop calls MergeContacts or the store update, no
\* indexed contact and no object of the space is modified, and a turn on a
\* contact that has duplicates only counts it as skipped.
C23_SkipOverridesMerge ==
  [][flags.skip =>
       /\ nMerges' = nMerges
       /\ enriched' = enriched
       /\ call'.op \notin {"merged", "updateError", "nothingNew"}
       /\ \A p \in DOMAIN contacts : contacts'[p] = contacts[p]
       /\ \A i \in DOMAIN store : store'[i] = store[i]
       /\ isDup' => /\ call'.op = "skipped"
                    /\ counts'.skippedCount = counts.skippedCount + 1
                    /\ UNCHANGED <<contacts, store, byPhone, byEmail, byName>>]_vars

\* both flags are set, and a contact was skipped that had something to add to
\* its duplicate
C23_Witness ==
  /\ flags.skip /\ flags.merge
  /\ Turn("skipped")
  /\ MergeContacts(contacts[call.p], call.c).merged
  /\ nMerges = 0

\* the space holds the fields of the indexed contact at p
Persisted(p) == \E i \in DOMAIN store : store[i].data = Properties(contacts[p])

\* C24: merging creates no duplicates later in the batch.  With merging
\* enabled, a contact the loop handles that shares a non-empty phone or email
\* key with a contact an earlier merge has enriched (a key gained through the
\* merge included) is found as its duplicate and is not imported as a new
\* record.
C24_EnrichedStillCatches ==
  (mergeDuplicates /\ pos > 0) =>
    \A p \in enriched \cap DOMAIN old :
      SharesNonEmptyKey(old[p], call.c) =>
        /\ p \in Range(matches)
        /\ call.op \notin {"imported", "importError"}

\* C25: a merge that changed the existing contact is persisted.  With merging
\* enabled, after a turn on a duplicate in which MergeContacts reported a
\* change and the space did not refuse the request, the space holds the
\* enriched contact, also when that contact was imported earlier in the batch.
C25_MergePersisted ==
  (mergeDuplicates /\ pos > 0 /\ isDup /\ merged /\ call.err # "update failed") =>
    /\ call.op = "merged"
    /\ Persisted(call.p)

\* C26: a contact is indexed only after the space created it.  A turn in which
\* importContact fails leaves the index, the indexed contacts, the space and
\* the success count as they were, and a next turn on an identical contact
\* finds no duplicate.
C26_IndexedOnlyWhenCreated ==
  [][/\ (pos' = pos + 1 /\ call'.op = "importError") =>
          /\ UNCHANGED <<contacts, byPhone, byEmail, byName, store>>
          /\ counts'.successCount = counts.successCount
     /\ (pos' = pos + 1 /\ Turn("importError") /\ input[pos'] = call.c) =>
          /\ ~isDup'
          /\ call'.op \in {"imported", "importError"}]_vars

\* the first of two identical contacts failed to be created, the second was
\* imported as the only record
C26_Witness ==
  /\ flags.skip \/ mergeDuplicates
  /\ pos = 2
  /\ input[1] = input[2]
  /\ Turn("imported")
  /\ Len(contacts) = 1
  /\ Len(store) = 1
  /\ counts.successCount = 1

\* C27: MergeContacts is idempotent under repetition.  A second
\* MergeContacts(dst, src) with the same src returns false and leaves dst as
\* the first call left it, also when both contacts had different notes.
C27_SecondMergeNoChange ==
  (call.op = "MergeContacts" /\ nMerges >= 2) => (~merged /\ contacts = old)

\* C28: the classifier and the comparator agree.  Every contact b that
\* FindDuplicates(a) returns has CompareContacts(a, b) of at least Weak, and
\* every indexed contact b other than a with CompareContacts(a, b) = Strong is
\* returned by FindDuplicates(a).
C28_ClassifierAgreesWithComparator ==
  call.op = "IsDuplicate" =>
    /\ \A b \in Range(matches) : CompareContacts(call.c, contacts[b]) >= MatchWeak
    /\ \A b \in Others :
         CompareContacts(call.c, contacts[b]) = MatchStrong => b \in Range(matches)

\* FindDuplicates returned a contact that shares only the name with the query
\* (Weak), or one that shares a key with it under another name (Strong)
C28_Witness ==
  /\ call.op = "IsDuplicate"
  /\ call.p \in Indexed
  /\ \E b \in Range(matches) :
       \/ CompareContacts(call.c, contacts[b]) = MatchWeak
       \/ /\ CompareContacts(call.c, contacts[b]) = MatchStrong
          /\ NameKey(call.c) # NameKey(contacts[b])

\* C30: CompareContacts is symmetric: CompareContacts(a, b) is
\* CompareContacts(b, a) for every pair of contacts.
C30_CompareSymmetric ==
  call.op = "CompareContacts" => ret = CompareContacts(arg[2], arg[1])

\* two contacts of one name compared, of which only the first has an
\* organization and a birthday: Weak in both directions
C30_Witness ==
  /\ call.op = "CompareContacts"
  /\ arg[1] # arg[2]
  /\ NameKey(arg[1]) = NameKey(arg[2])
  /\ arg[1].Organization # << >> /\ arg[1].Birthday # << >>
  /\ arg[2].Organization = << >> /\ arg[2].Birthday = << >>
  /\ ret = MatchWeak

\* the slices that hold the contacts of s in another order
Reorderings(s) ==
  {[i \in 1..Len(s) |-> s[f[i]]] : f \in Permutations(1..Len(s))}

\* C29: the outcome of a batch import without merging does not depend on the
\* order of the input.  When the loop has gone through the slice, the number
\* of indexed contacts is the number the loop indexes for every reordering of
\* the slice.
C29_OrderIndependent ==
  pos = Len(input) =>
    \A cs \in Reorderings(input) : BatchCount(cs) = Len(contacts)
====
